---- MODULE Spec2Model ----
(***************************************************************************)
(* Model of landing_page_report_v2.py: the landing-page report pipeline    *)
(*   load_data -> filter_channels -> get_top_pages -> summarize_data ->    *)
(*   generate_markdown                                                     *)
(* A table (pandas DataFrame) is a sequence of rows, a row is a record     *)
(* whose fields are the columns.  The output file is a sequence of text    *)
(* lines.                                                                  *)
(***************************************************************************)
EXTENDS Integers, Sequences, FiniteSets, TLC

VARIABLES
    mom_csv,        \* rows of the month-over-month CSV file
    yoy_csv,        \* rows of the year-over-year CSV file
    channels,       \* the allow-list handed to filter_channels
    top_n,          \* the N handed to get_top_pages
    quicksort,      \* how the platform's quicksort orders equal keys
    mom_data, yoy_data,             \* __main__ locals, in pipeline order
    mom_filtered, yoy_filtered,
    mom_top_pages, yoy_top_pages,
    summary_data,
    report,         \* what generate_markdown wrote, item by item, with the loop's locals
    file,           \* the lines of the output file on disk
    pc,             \* position in __main__
    runs,           \* completed runs of the script
    previous_output \* the output file as the run before left it

vars == <<mom_csv, yoy_csv, channels, top_n, quicksort, mom_data, yoy_data,
          mom_filtered, yoy_filtered, mom_top_pages, yoy_top_pages,
          summary_data, report, file, pc, runs, previous_output>>

----------------------------------------------------------------------------
(* Bounds of the model *)

\* longest month-over-month CSV
MaxMomRows == 3
\* longest year-over-year CSV
MaxYoyRows == 1
\* number of times the script is run
MaxRuns == 2
\* largest N tried on get_top_pages when it is exercised on its own
MaxTopN == 2

----------------------------------------------------------------------------
(* Program constants *)

PROGRAM_ORDER ==
    << "Informatics", "CyberOps", "CyberEng", "MED", "LEPSL", "Data Science",
       "MSAAI", "MSLDT", "MTS", "MESH", "MSHA", "MSNP", "EML", "MSITL", "MSNNL" >>

PROGRAM_NAMES ==
    [p \in {PROGRAM_ORDER[i] : i \in DOMAIN PROGRAM_ORDER} |->
        CASE p = "Informatics"  -> "Health Care Informatics"
          [] p = "CyberOps"     -> "Cyber Security Operations and Leadership"
          [] p = "CyberEng"     -> "Cyber Security Engineering"
          [] p = "MED"          -> "Education"
          [] p = "LEPSL"        -> "Law Enforcement and Public Safety Leadership"
          [] p = "Data Science" -> "Applied Data Science"
          [] p = "MSAAI"        -> "Applied Artificial Intelligence"
          [] p = "MSLDT"        -> "Learning Design and Technology"
          [] p = "MTS"          -> "Theological Studies"
          [] p = "MESH"         -> "Engineering for Sustainability & Health"
          [] p = "MSHA"         -> "Humanitarian Action"
          [] p = "MSNP"         -> "Nonprofit Leadership & Management"
          [] p = "EML"          -> "Engineering Management and Leadership"
          [] p = "MSITL"        -> "Information Technology Leadership"
          [] p = "MSNNL"        -> "MSN Nursing Leadership"]

\* channels_of_interest of __main__
channels_of_interest == << "Organic Search", "Paid Search", "Paid Social" >>

\* the top_n that __main__ passes to get_top_pages
MainTopN == 3

\* generate_markdown keeps the rows with Session_mom > 20
MinSessions == 20

\* the columns filled, the name of one of them misspelt
FillColumnsMisspelt ==
    { "Session_mom", "Sessions_yoy",
      "sessions_mom_difference", "sessions_yoy_difference",
      "Conversions_mom", "Conversions_yoy",
      "conversions_mom_difference", "conversions_yoy_difference",
      "conversion_rate_mom_percent_difference",
      "conversion_rate_yoy_percent_difference" }

\* the ten columns summarize_data fills
FillColumns ==
    { "Session_mom", "Session_yoy",
      "sessions_mom_difference", "sessions_yoy_difference",
      "Conversions_mom", "Conversions_yoy",
      "conversions_mom_difference", "conversions_yoy_difference",
      "conversion_rate_mom_percent_difference",
      "conversion_rate_yoy_percent_difference" }

\* the missing value of a numeric column (float NaN): a value no data holds
NaN == -1000000

\* the missing value of the categorical program_category column
NaNCategory == "NaN"

----------------------------------------------------------------------------
(* Python and pandas primitives *)

Range(s) == { s[i] : i \in DOMAIN s }

\* Python's order on str (by code point), on the strings the model uses
Collation ==
    << "/apply", "/blog", "/home",
       "CyberEng", "CyberOps", "Data Science", "Direct", "EML", "Informatics",
       "LEPSL", "MED", "MESH", "MSAAI", "MSHA", "MSITL", "MSLDT", "MSNNL",
       "MSNP", "MTS", "Organic Search", "Other", "Paid Search", "Paid Social" >>

StrPos(a) == CHOOSE i \in DOMAIN Collation : Collation[i] = a

StrLess(a, b) == StrPos(a) < StrPos(b)

\* a stable sort of sequence s: keys[i] is the sort key of s[i], the smaller
\* key first, equal keys in the order they have in s
StableSort(s, keys) ==
    LET n == Len(s)
        before(j, i) == keys[j] < keys[i] \/ (keys[j] = keys[i] /\ j < i)
        rank(i) == Cardinality({ j \in 1..n : before(j, i) })
    IN  [k \in 1..n |-> s[CHOOSE i \in 1..n : rank(i) = k - 1]]

\* the order of tuples of strings of one length: by the first place they
\* differ in
TupleLess(a, b) ==
    \E i \in DOMAIN a :
        /\ StrLess(a[i], b[i])
        /\ \A j \in 1..(i - 1) : a[j] = b[j]

Reverse(s) == [i \in 1..Len(s) |-> s[Len(s) + 1 - i]]

\* a set of keys, tuples of strings, as a sequence in increasing order
SortedKeys(S) ==
    [k \in 1..Cardinality(S) |->
        CHOOSE x \in S : Cardinality({ y \in S : TupleLess(y, x) }) = k - 1]

RECURSIVE Concat(_)
Concat(seqs) == IF seqs = << >> THEN << >> ELSE Head(seqs) \o Concat(Tail(seqs))

Head_n(s, n) == SubSeq(s, 1, IF n < Len(s) THEN n ELSE Len(s))

\* DataFrame.sort_values(col), ascending
SortValuesAscending(s, col, kind) ==
    LET t == IF kind = "stable" THEN s ELSE Reverse(s)
    IN  StableSort(t, [i \in DOMAIN t |-> t[i][col]])

\* DataFrame.sort_values(col, ascending=False) with the default kind,
\* quicksort: descending, equal keys in an order the platform decides
SortValuesDescending(s, col, kind) ==
    LET t == IF kind = "stable" THEN s ELSE Reverse(s)
    IN  StableSort(t, [i \in DOMAIN t |-> -t[i][col]])

----------------------------------------------------------------------------
(* filter_channels *)

\* filter_channels comparing with the first channel of the list only
filter_channels_first(data, chans) ==
    SelectSeq(data, LAMBDA r : chans # << >> /\ r.default_channel = chans[1])

\* data[data['default_channel'].isin(channels)].copy()
filter_channels(data, chans) ==
    SelectSeq(data, LAMBDA r : r.default_channel \in Range(chans))

----------------------------------------------------------------------------
(* get_top_pages *)

\* nlargest with keep='last'
nlargest_keep_last(x, n, kind) ==
    IF n <= 0 THEN << >>
    ELSE IF n >= Len(x) THEN SortValuesDescending(x, "Session", kind)
    ELSE Head_n(StableSort(Reverse(x),
                           [i \in DOMAIN x |-> -Reverse(x)[i].Session]), n)

\* x.nlargest(n, 'Session'), keep='first'
nlargest(x, n, kind) ==
    IF n <= 0 THEN << >>
    ELSE IF n >= Len(x) THEN SortValuesDescending(x, "Session", kind)
    ELSE Head_n(StableSort(x, [i \in DOMAIN x |-> -x[i].Session]), n)

\* data.groupby(['program_category', 'default_channel'])
\*     .apply(lambda x: x.nlargest(top_n, 'Session')).reset_index(), level_2
\* dropped: the groups in the order of their keys
get_top_pages(data, n, kind) ==
    LET keys   == { <<r.program_category, r.default_channel>> : r \in Range(data) }
        order  == SortedKeys(keys)
        group(k) == SelectSeq(data, LAMBDA r :
                        <<r.program_category, r.default_channel>> = k)
    IN  Concat([i \in DOMAIN order |-> nlargest(group(order[i]), n, kind)])

----------------------------------------------------------------------------
(* summarize_data *)

JoinKey(r) == <<r.program_category, r.default_channel, r.Landing_page>>

\* the columns of a row missing from one side of the join
NoRow ==
    [ Session |-> NaN, Conversions |-> NaN,
      sessions_mom_difference |-> NaN, conversions_mom_difference |-> NaN,
      conversion_rate_mom_percent_difference |-> NaN,
      sessions_yoy_difference |-> NaN, conversions_yoy_difference |-> NaN,
      conversion_rate_yoy_percent_difference |-> NaN ]

\* one row of the merge: the key, the left columns and the right columns,
\* the columns both sides have suffixed _mom and _yoy
MergedRow(k, l, r) ==
    [ program_category |-> k[1], default_channel |-> k[2], Landing_page |-> k[3],
      Session_mom |-> l.Session,
      Conversions_mom |-> l.Conversions,
      sessions_mom_difference |-> l.sessions_mom_difference,
      conversions_mom_difference |-> l.conversions_mom_difference,
      conversion_rate_mom_percent_difference |-> l.conversion_rate_mom_percent_difference,
      Session_yoy |-> r.Session,
      Conversions_yoy |-> r.Conversions,
      sessions_yoy_difference |-> r.sessions_yoy_difference,
      conversions_yoy_difference |-> r.conversions_yoy_difference,
      conversion_rate_yoy_percent_difference |-> r.conversion_rate_yoy_percent_difference ]

\* the rows of a merge with how='left' for one key
MergeKeyLeft(k, left, right) ==
    LET ls == SelectSeq(left, LAMBDA r : JoinKey(r) = k)
        rs == SelectSeq(right, LAMBDA r : JoinKey(r) = k)
    IN  IF rs = << >> THEN [i \in DOMAIN ls |-> MergedRow(k, ls[i], NoRow)]
        ELSE Concat([i \in DOMAIN ls |->
                        [j \in DOMAIN rs |-> MergedRow(k, ls[i], rs[j])]])

\* the rows of the merge for one key: every left row with every right row of
\* that key, or the rows of the one side that has the key
MergeKey(k, left, right) ==
    LET ls == SelectSeq(left, LAMBDA r : JoinKey(r) = k)
        rs == SelectSeq(right, LAMBDA r : JoinKey(r) = k)
    IN  IF rs = << >> THEN [i \in DOMAIN ls |-> MergedRow(k, ls[i], NoRow)]
        ELSE IF ls = << >> THEN [j \in DOMAIN rs |-> MergedRow(k, NoRow, rs[j])]
        ELSE Concat([i \in DOMAIN ls |->
                        [j \in DOMAIN rs |-> MergedRow(k, ls[i], rs[j])]])

\* pd.merge(mom_data, yoy_data, on=[...], how='outer', suffixes=('_mom', '_yoy')):
\* the keys of both tables in increasing order
merge(left, right) ==
    LET keys  == { JoinKey(r) : r \in Range(left) \cup Range(right) }
        order == SortedKeys(keys)
    IN  Concat([i \in DOMAIN order |-> MergeKey(order[i], left, right)])

\* summary.fillna({column: 0, ...}) of one row
FillRow(r) ==
    [f \in DOMAIN r |-> IF f \in FillColumns /\ r[f] = NaN THEN 0 ELSE r[f]]

fillna(data) == [i \in DOMAIN data |-> FillRow(data[i])]

----------------------------------------------------------------------------
(* sort_by_program_order *)

\* pd.Categorical(values, categories=PROGRAM_ORDER, ordered=True) of one value
Categorical(p) == IF p \in Range(PROGRAM_ORDER) THEN p ELSE NaNCategory

\* the sort position of a program that was left a string: alphabetical
CategoryCodeAlphabetical(p) ==
    IF p \in Range(PROGRAM_ORDER) THEN StrPos(p) ELSE Len(Collation) + 1

\* the sort position of a category: its place in PROGRAM_ORDER, missing last
CategoryCode(p) ==
    IF p \in Range(PROGRAM_ORDER)
    THEN CHOOSE i \in DOMAIN PROGRAM_ORDER : PROGRAM_ORDER[i] = p
    ELSE Len(PROGRAM_ORDER) + 1

\* the sort key of a row for sort_values(['program_category',
\* 'default_channel']): the program first, the channel within a program
ProgramChannelKey(r) ==
    CategoryCode(r.program_category) * (Len(Collation) + 1)
        + StrPos(r.default_channel)

\* reset_index() names the column of the old index "index", or "level_0"
\* when the table has a column "index" already
WithIndexColumn(r, label) ==
    IF "index" \in DOMAIN r THEN [level_0 |-> label] @@ r
    ELSE [index |-> label] @@ r

\* data is a table and labels its index, row by row
sort_by_program_order(data, labels) ==
    LET cat == [i \in DOMAIN data |->
                   WithIndexColumn(
                       [data[i] EXCEPT !.program_category = Categorical(@)],
                       labels[i])]
    IN  StableSort(cat, [i \in DOMAIN cat |-> ProgramChannelKey(cat[i])])

RangeIndex(n) == [i \in 1..n |-> i - 1]

summarize_data(mom, yoy) ==
    LET summary == fillna(merge(mom, yoy))
    IN  sort_by_program_order(summary, RangeIndex(Len(summary)))

----------------------------------------------------------------------------
(* generate_markdown *)

Abs(n) == IF n < 0 THEN -n ELSE n

\* a float64: (-1)^neg * (hi * 2^27 + lo) * 2^exp, the 53 bits of the
\* significand split in two, 2^25 <= hi < 2^26 and 0 <= lo < 2^27; a zero
\* has hi = lo = 0 and keeps its sign
Float64(neg, hi, lo, exp) == [neg |-> neg, hi |-> hi, lo |-> lo, exp |-> exp]

\* 0.0, or -0.0
Zero(neg) == Float64(neg, 0, 0, 0)

IsZero(x) == x.hi = 0 /\ x.lo = 0

\* the significand after a rounding up: the next float64 away from zero
NextUp(hi, lo, exp) ==
    IF lo + 1 < 2^27 THEN <<hi, lo + 1, exp>>
    ELSE IF hi + 1 < 2^26 THEN <<hi + 1, 0, exp>>
    ELSE <<2^25, 0, exp + 1>>

\* the least k with a * 2^k >= b
RECURSIVE ShiftUp(_, _)
ShiftUp(a, b) == IF a >= b THEN 0 ELSE 1 + ShiftUp(2 * a, b)

\* the greatest k with b * 2^k <= a
RECURSIVE ShiftDown(_, _)
ShiftDown(a, b) == IF 2 * b > a THEN 0 ELSE 1 + ShiftDown(a, 2 * b)

\* the float64 nearest to a / b, halves to even, for a > 0 and b > 0: the
\* quotient is brought into [1, 2) and 52 more bits of it are taken by long
\* division, 13 at a time (a and b are below 2^17)
Quotient(a, b) ==
    LET up == ShiftUp(a, b)
        down == ShiftDown(a, b)
        n == a * 2^up
        m == b * 2^down
        r0 == n - m
        d1 == (r0 * 2^13) \div m
        r1 == (r0 * 2^13) % m
        d2 == (r1 * 2^13) \div m
        r2 == (r1 * 2^13) % m
        d3 == (r2 * 2^13) \div m
        r3 == (r2 * 2^13) % m
        d4 == (r3 * 2^13) \div m
        r4 == (r3 * 2^13) % m
        hi == 2^25 + d1 * 2^12 + d2 \div 2
        lo == (d2 % 2) * 2^26 + d3 * 2^13 + d4
        exp == down - up - 52
    IN  IF 2 * r4 > m \/ (2 * r4 = m /\ lo % 2 = 1)
        THEN NextUp(hi, lo, exp)
        ELSE <<hi, lo, exp>>

\* a / b of two whole numbers, b # 0: a float64
TrueDivide(a, b) ==
    IF a = 0 THEN Zero(b < 0)
    ELSE LET q == Quotient(Abs(a), Abs(b))
         IN  Float64((a < 0) # (b < 0), q[1], q[2], q[3])

\* x * 100, rounded to a float64, halves to even: the significand times 25,
\* which has 57 or 58 bits, cut back to 53, and the exponent raised by 2
Times100(x) ==
    IF IsZero(x) THEN x
    ELSE LET lo5 == x.lo * 5
             hi5 == x.hi * 5 + lo5 \div 2^27
             lo25 == (lo5 % 2^27) * 5
             hi25 == hi5 * 5 + lo25 \div 2^27
             low == lo25 % 2^27
             s == IF hi25 >= 2^30 THEN 5 ELSE 4
             hi == hi25 \div 2^s
             lo == (hi25 % 2^s) * 2^(27 - s) + low \div 2^s
             rest == low % 2^s
             half == 2^(s - 1)
             exp == x.exp + s + 2
             r == IF rest > half \/ (rest = half /\ lo % 2 = 1)
                  THEN NextUp(hi, lo, exp)
                  ELSE <<hi, lo, exp>>
         IN  Float64(x.neg, r[1], r[2], r[3])

\* the percent change, 0 whenever the previous period had no conversions
pct_change_zero(diff, prev) ==
    IF prev # 0 THEN Times100(TrueDivide(diff, prev)) ELSE Zero(FALSE)

\* the percent change of the conversions against the previous period
pct_change(diff, prev) ==
    IF prev # 0 THEN Times100(TrueDivide(diff, prev))
    ELSE IF diff > 0 THEN TrueDivide(100, 1) ELSE Zero(FALSE)

\* x >= 0, which holds of a negative zero too
NonNegative(x) == ~x.neg \/ IsZero(x)

\* |x| rounded to a whole number, halves to even (|x| is below 2^30)
RoundHalfEven(x) ==
    LET s == -x.exp
        whole == IF s > 52 THEN 0
                 ELSE IF s >= 27 THEN x.hi \div 2^(s - 27)
                 ELSE x.hi * 2^(27 - s) + x.lo \div 2^s
        above == IF s > 53 THEN FALSE
                 ELSE IF s = 53 THEN x.hi > 2^25 \/ x.lo > 0
                 ELSE IF s > 27 THEN \/ x.hi % 2^(s - 27) > 2^(s - 28)
                                     \/ x.hi % 2^(s - 27) = 2^(s - 28) /\ x.lo > 0
                 ELSE x.lo % 2^s > 2^(s - 1)
        tie == IF s > 52 THEN s = 53 /\ x.hi = 2^25 /\ x.lo = 0
               ELSE IF s > 27 THEN x.hi % 2^(s - 27) = 2^(s - 28) /\ x.lo = 0
               ELSE x.lo % 2^s = 2^(s - 1)
    IN  IF IsZero(x) THEN 0
        ELSE IF above \/ (tie /\ whole % 2 = 1) THEN whole + 1 ELSE whole

\* f"{x:.0f}": rounded to a whole number, halves to even, the sign of a
\* negative number kept even when it rounds to zero
FormatFloat(x) == (IF x.neg THEN "-" ELSE "") \o ToString(RoundHalfEven(x))

\* f"{n:.0f}" of a whole number
FormatNumber(n) == ToString(n)

\* f"+{n:.0f}" if n >= 0 else f"{n:.0f}"
SignedNumber(n) == IF n >= 0 THEN "+" \o FormatNumber(n) ELSE FormatNumber(n)

SignedFloat(x) == IF NonNegative(x) THEN "+" \o FormatFloat(x) ELSE FormatFloat(x)

\* data['Session_mom'] >= 20
EnoughSessionsInclusive(r) == r.Session_mom # NaN /\ r.Session_mom >= MinSessions

\* data['Session_mom'] > 20, which a missing value does not satisfy
EnoughSessions(r) == r.Session_mom # NaN /\ r.Session_mom > MinSessions

\* previous period conversions = current - difference
prev_conv(conv_mom, diff) == conv_mom - diff

\* the body of the loop over channel_data.iterrows(): the locals of one row
BulletItem(program, channel, row) ==
    LET conv_mom      == row.Conversions_mom
        conv_mom_diff == row.conversions_mom_difference
        conv_yoy_diff == row.conversions_yoy_difference
        prev_conv_mom == prev_conv(conv_mom, conv_mom_diff)
        prev_conv_yoy == prev_conv(conv_mom, conv_yoy_diff)
    IN  [ kind |-> "bullet", program |-> program, channel |-> channel,
          row |-> row,
          page |-> row.Landing_page,
          sessions_mom |-> row.Session_mom,
          sessions_mom_diff |-> row.sessions_mom_difference,
          sessions_yoy_diff |-> row.sessions_yoy_difference,
          conv_mom |-> conv_mom,
          conv_mom_diff |-> conv_mom_diff,
          conv_yoy_diff |-> conv_yoy_diff,
          prev_conv_mom |-> prev_conv_mom,
          prev_conv_yoy |-> prev_conv_yoy,
          conv_pct_change_mom |-> pct_change(conv_mom_diff, prev_conv_mom),
          conv_pct_change_yoy |-> pct_change(conv_yoy_diff, prev_conv_yoy) ]

\* Series.unique(): the values in the order they first appear
Unique(s) ==
    LET firsts == SelectSeq([i \in DOMAIN s |-> i],
                            LAMBDA i : \A j \in 1..(i - 1) : s[j] # s[i])
    IN  [k \in DOMAIN firsts |-> s[firsts[k]]]

\* the loop over the channels of one program
ChannelItems(program, program_data, kind) ==
    LET chans == Unique([i \in DOMAIN program_data |-> program_data[i].default_channel])
        channel_data(c) ==
            SortValuesDescending(
                SelectSeq(program_data, LAMBDA r : r.default_channel = c),
                "Session_mom", kind)
        section(c) ==
            << [kind |-> "channel", program |-> program, channel |-> c] >>
            \o [i \in DOMAIN channel_data(c) |->
                   BulletItem(program, c, channel_data(c)[i])]
            \o << [kind |-> "channel_end", program |-> program, channel |-> c] >>
    IN  Concat([k \in DOMAIN chans |-> section(chans[k])])

\* the body of the loop over PROGRAM_ORDER
ProgramItems(program, data, kind) ==
    LET program_data == SelectSeq(data, LAMBDA r : r.program_category = program)
    IN  IF program_data = << >> THEN << >>
        ELSE << [kind |-> "program", program |-> program] >>
             \o ChannelItems(program, program_data, kind)
             \o << [kind |-> "program_end", program |-> program] >>

\* the index labels of the rows of data that data['Session_mom'] > 20 keeps
KeptLabels(data) ==
    SelectSeq(RangeIndex(Len(data)), LAMBDA l : EnoughSessions(data[l + 1]))

\* generate_markdown looping over data.groupby('program_category'), the
\* programs as strings
generate_markdown_groupby(data, kind) ==
    LET kept   == SelectSeq(data, EnoughSessions)
        sorted == sort_by_program_order(kept, KeptLabels(data))
        progs  == SortedKeys({ <<r.program_category>> : r \in Range(sorted) }
                                 \ { <<NaNCategory>> })
    IN  Concat([i \in DOMAIN progs |-> ProgramItems(progs[i][1], sorted, kind)])

\* everything generate_markdown writes, in order
generate_markdown(data, kind) ==
    LET kept   == SelectSeq(data, EnoughSessions)
        sorted == sort_by_program_order(kept, KeptLabels(data))
    IN  Concat([i \in DOMAIN PROGRAM_ORDER |->
                   ProgramItems(PROGRAM_ORDER[i], sorted, kind)])

\* PROGRAM_NAMES.get(program, program)
display_name(program) ==
    IF program \in DOMAIN PROGRAM_NAMES THEN PROGRAM_NAMES[program] ELSE program

\* the text of a bullet
BulletText(b) ==
    "* \"" \o b.page \o "\": " \o FormatNumber(b.sessions_mom) \o " sessions "
    \o "(YoY: " \o SignedNumber(b.sessions_yoy_diff)
    \o " | MoM: " \o SignedNumber(b.sessions_mom_diff) \o ")"
    \o ( IF b.conv_mom > 0
         THEN " Conversions: " \o FormatNumber(b.conv_mom) \o " "
              \o "(YoY: " \o SignedNumber(b.conv_yoy_diff) \o ", "
              \o SignedFloat(b.conv_pct_change_yoy) \o "% | "
              \o "MoM: " \o SignedNumber(b.conv_mom_diff) \o ", "
              \o SignedFloat(b.conv_pct_change_mom) \o "%)"
         ELSE "" )

\* the lines one item puts into the file, each ended by "\n"
Lines(item) ==
    CASE item.kind = "program" ->
            << "## **" \o display_name(item.program) \o "**", "",
               "### **Landing Page Report**", "" >>
      [] item.kind = "channel" -> << "#### **" \o item.channel \o "**", "" >>
      [] item.kind = "bullet" -> << BulletText(item) >>
      [] item.kind = "channel_end" -> << "" >>
      [] item.kind = "program_end" -> << "" >>

\* open(output_file, 'a')
OpenForAppending(old) == old

\* open(output_file, 'w'): what is left of the file's old lines
OpenForWriting(old) == << >>

\* the file after the writes of a run
WriteFile(old, items) ==
    OpenForWriting(old) \o Concat([i \in DOMAIN items |-> Lines(items[i])])

----------------------------------------------------------------------------
(* The CSV files *)

MomRow(p, c, l, s, sd, cv, cd) ==
    [ program_category |-> p, default_channel |-> c, Landing_page |-> l,
      Session |-> s, sessions_mom_difference |-> sd,
      Conversions |-> cv, conversions_mom_difference |-> cd,
      conversion_rate_mom_percent_difference |-> 1 ]

YoyRow(p, c, l, s, sd, cv, cd) ==
    [ program_category |-> p, default_channel |-> c, Landing_page |-> l,
      Session |-> s, sessions_yoy_difference |-> sd,
      Conversions |-> cv, conversions_yoy_difference |-> cd,
      conversion_rate_yoy_percent_difference |-> 2 ]

\* the rows a month-over-month CSV is made of
MomUniverse ==
    { MomRow("Informatics", "Organic Search", "/home",  50,  5, 63, 23),
      MomRow("Informatics", "Organic Search", "/blog",  35, -4,  0,  0),
      MomRow("Informatics", "Paid Social",    "/apply", 40,  7,  3, -1),
      MomRow("Informatics", "Paid Search",    "/home",  20,  0,  1,  1),
      MomRow("CyberOps",    "Paid Search",    "/apply", 21,  1,  2,  2),
      MomRow("Other",       "Organic Search", "/home",  60,  3,  4,  1) }

\* the rows a year-over-year CSV is made of
YoyUniverse ==
    { YoyRow("Informatics", "Organic Search", "/home",  45, -3,  8, -1),
      YoyRow("Informatics", "Direct",         "/home",  90,  9,  5,  0) }

\* the rows of the CSV that get_top_pages is exercised on: three pages of one
\* group, two of them with the same sessions, and a page of another group
RankUniverse ==
    { MomRow("Informatics", "Organic Search", "/home",  50,  5, 10,  2),
      MomRow("Informatics", "Organic Search", "/blog",  50, -4,  0,  0),
      MomRow("Informatics", "Organic Search", "/apply", 35,  7,  3, -1),
      MomRow("CyberOps",    "Paid Search",    "/apply", 21,  1,  2,  2) }

\* the tables of at most n rows of U
Tables(U, n) == UNION { [1..k -> U] : k \in 0..n }

\* the allow-lists tried on filter_channels when it is exercised on its own
AllowLists ==
    { << >>, << "Paid Search", "Direct" >>, << "Organic Search" >>,
      channels_of_interest }

----------------------------------------------------------------------------
(* The script *)

Locals ==
    /\ mom_data = << >> /\ yoy_data = << >>
    /\ mom_filtered = << >> /\ yoy_filtered = << >>
    /\ mom_top_pages = << >> /\ yoy_top_pages = << >>
    /\ summary_data = << >>
    /\ report = << >>

\* the script is about to run for the first time, on some pair of CSV files
Init ==
    /\ mom_csv \in Tables(MomUniverse, MaxMomRows)
    /\ yoy_csv \in Tables(YoyUniverse, MaxYoyRows)
    /\ channels = channels_of_interest
    /\ top_n = MainTopN
    /\ quicksort \in { "stable", "unstable" }
    /\ Locals
    /\ file = << >>
    /\ previous_output = << >>
    /\ pc = "load"
    /\ runs = 0

\* the same, the allow-list and N being any the two functions may be given
InitAnyArguments ==
    /\ mom_csv \in Tables(RankUniverse, MaxMomRows)
    /\ yoy_csv = << >>
    /\ channels \in AllowLists
    /\ top_n \in 0..MaxTopN
    /\ quicksort \in { "stable", "unstable" }
    /\ Locals
    /\ file = << >>
    /\ previous_output = << >>
    /\ pc = "load"
    /\ runs = 0

\* mom_data, yoy_data = load_data(mom_file, yoy_file)
LoadData ==
    /\ pc = "load"
    /\ mom_data' = mom_csv
    /\ yoy_data' = yoy_csv
    /\ pc' = "filter"
    /\ UNCHANGED <<mom_csv, yoy_csv, channels, top_n, quicksort, mom_filtered,
                   yoy_filtered, mom_top_pages, yoy_top_pages, summary_data,
                   report, file, runs, previous_output>>

\* mom_filtered = filter_channels(mom_data, ...), and yoy_filtered
FilterChannels ==
    /\ pc = "filter"
    /\ mom_filtered' = filter_channels(mom_data, channels)
    /\ yoy_filtered' = filter_channels(yoy_data, channels)
    /\ pc' = "top"
    /\ UNCHANGED <<mom_csv, yoy_csv, channels, top_n, quicksort, mom_data,
                   yoy_data, mom_top_pages, yoy_top_pages, summary_data,
                   report, file, runs, previous_output>>

\* mom_top_pages = get_top_pages(mom_filtered, ...), and yoy_top_pages
GetTopPages ==
    /\ pc = "top"
    /\ mom_top_pages' = get_top_pages(mom_filtered, top_n, quicksort)
    /\ yoy_top_pages' = get_top_pages(yoy_filtered, top_n, quicksort)
    /\ pc' = "summarize"
    /\ UNCHANGED <<mom_csv, yoy_csv, channels, top_n, quicksort, mom_data,
                   yoy_data, mom_filtered, yoy_filtered, summary_data,
                   report, file, runs, previous_output>>

\* summary_data = summarize_data(mom_top_pages, yoy_top_pages)
SummarizeData ==
    /\ pc = "summarize"
    /\ summary_data' = summarize_data(mom_top_pages, yoy_top_pages)
    /\ pc' = "report"
    /\ UNCHANGED <<mom_csv, yoy_csv, channels, top_n, quicksort, mom_data,
                   yoy_data, mom_filtered, yoy_filtered, mom_top_pages,
                   yoy_top_pages, report, file, runs, previous_output>>

\* generate_markdown(summary_data, "landing_page_top3_next_month_v5_update.md")
GenerateMarkdown ==
    /\ pc = "report"
    /\ report' = generate_markdown(summary_data, quicksort)
    /\ file' = WriteFile(file, report')
    /\ pc' = "done"
    /\ runs' = runs + 1
    /\ UNCHANGED <<mom_csv, yoy_csv, channels, top_n, quicksort, mom_data,
                   yoy_data, mom_filtered, yoy_filtered, mom_top_pages,
                   yoy_top_pages, summary_data, previous_output>>

\* the script is started again on the same CSV files, the output file of the
\* run before still on disk
RunAgain ==
    /\ pc = "done"
    /\ runs < MaxRuns
    /\ previous_output' = file
    /\ mom_data' = << >> /\ yoy_data' = << >>
    /\ mom_filtered' = << >> /\ yoy_filtered' = << >>
    /\ mom_top_pages' = << >> /\ yoy_top_pages' = << >>
    /\ summary_data' = << >>
    /\ report' = << >>
    /\ pc' = "load"
    /\ UNCHANGED <<mom_csv, yoy_csv, channels, top_n, quicksort, file, runs>>

Next ==
    \/ LoadData
    \/ FilterChannels
    \/ GetTopPages
    \/ SummarizeData
    \/ GenerateMarkdown
    \/ RunAgain

Spec == Init /\ [][Next]_vars

SpecAnyArguments == InitAnyArguments /\ [][Next]_vars

----------------------------------------------------------------------------
(* Properties *)

Min(a, b) == IF a < b THEN a ELSE b

Max(a, b) == IF a > b THEN a ELSE b

\* how many rows of table t satisfy P
CountRows(t, P(_)) == Cardinality({ i \in DOMAIN t : P(t[i]) })

\* the k-th smallest element of a set of integers
Nth(S, k) == CHOOSE j \in S : Cardinality({ i \in S : i < j }) = k - 1

GroupKey(r) == <<r.program_category, r.default_channel>>

\* table out holds exactly the rows of table data at the positions S, in
\* positions' order
IsSubTable(out, data, S) ==
    /\ Len(out) = Cardinality(S)
    /\ \A k \in DOMAIN out : out[k] = data[Nth(S, k)]

\* table out holds exactly the rows of table data at the positions S, in any
\* order
IsSelection(out, data, S) ==
    /\ Len(out) = Cardinality(S)
    /\ \A v \in Range(out) \cup { data[i] : i \in S } :
          CountRows(out, LAMBDA r : r = v)
              = Cardinality({ i \in S : data[i] = v })

\* filtered is data cut down to the allow-list, nothing else changed
FilteredFrom(filtered, data) ==
    IsSubTable(filtered, data,
               { j \in DOMAIN data : data[j].default_channel \in Range(channels) })

\* C8: filter_channels returns exactly the rows whose default_channel is in the
\* allow-list, in their original order and with all their columns, and leaves
\* the table it was given as it was
C8_FilterChannels ==
    pc \notin { "load", "filter" } =>
        /\ FilteredFrom(mom_filtered, mom_data)
        /\ FilteredFrom(yoy_filtered, yoy_data)
        /\ mom_data = mom_csv
        /\ yoy_data = yoy_csv

\* C8 witness: an allow-list other than the script's has kept some rows of the
\* table and dropped others
C8_Witness ==
    /\ pc = "top"
    /\ channels # channels_of_interest
    /\ Len(mom_filtered) >= 1
    /\ Len(mom_filtered) < Len(mom_data)

\* positions i of data in the group g that S holds are the top ones: no row of
\* the group left out has more sessions, nor as many and an earlier place
IsTopOfGroup(S, data, g) ==
    LET idx == { i \in DOMAIN data : GroupKey(data[i]) = g }
    IN  /\ S \subseteq idx
        /\ Cardinality(S) = Min(top_n, Cardinality(idx))
        /\ \A i \in S : \A j \in idx \ S :
              \/ data[i].Session > data[j].Session
              \/ data[i].Session = data[j].Session /\ i < j

RankedFrom(top, data) ==
    /\ \A r \in Range(top) : \E d \in Range(data) : GroupKey(d) = GroupKey(r)
    /\ \A g \in { GroupKey(d) : d \in Range(data) } :
          \E S \in SUBSET DOMAIN data :
              /\ IsTopOfGroup(S, data, g)
              /\ IsSelection(SelectSeq(top, LAMBDA r : GroupKey(r) = g), data, S)

\* C2: for every (program_category, default_channel) group get_top_pages
\* returns min(N, group size) rows of the group, those with the most sessions,
\* the earlier row winning among rows with the same sessions
C2_TopPages ==
    pc \notin { "load", "filter", "top" } =>
        /\ RankedFrom(mom_top_pages, mom_filtered)
        /\ RankedFrom(yoy_top_pages, yoy_filtered)

\* C2 witness: a group of more than N rows, two rows with the same sessions
\* competing for the last place
C2_Witness ==
    /\ pc = "summarize"
    /\ top_n >= 1
    /\ \E i, j \in DOMAIN mom_filtered :
          /\ i < j
          /\ GroupKey(mom_filtered[i]) = GroupKey(mom_filtered[j])
          /\ mom_filtered[i].Session = mom_filtered[j].Session
          /\ mom_filtered[i] \in Range(mom_top_pages)
          /\ mom_filtered[j] \notin Range(mom_top_pages)

\* the items of a kind that generate_markdown wrote, in order
Written(kind) == SelectSeq(report, LAMBDA it : it.kind = kind)

Known(program) == program \in Range(PROGRAM_ORDER)

OrderPos(program) == CHOOSE i \in DOMAIN PROGRAM_ORDER : PROGRAM_ORDER[i] = program

\* the row of the summary table that a bullet was written for
IsBulletOf(it, r) == it.kind = "bullet" /\ it.row.index = r.index

Reported(r) == \E it \in Range(report) : IsBulletOf(it, r)

\* C1: the program headers of the report follow PROGRAM_ORDER, each program at
\* most once, and a row whose program is not in PROGRAM_ORDER gets neither a
\* header nor a bullet, whatever the order of the rows in the CSV files
C1_ProgramOrder ==
    pc = "done" =>
        LET headers == Written("program")
        IN  /\ \A i \in DOMAIN headers : Known(headers[i].program)
            /\ \A i, j \in DOMAIN headers :
                  i < j => OrderPos(headers[i].program) < OrderPos(headers[j].program)
            /\ \A r \in Range(summary_data) :
                  ~Known(r.program_category) => ~Reported(r)
            /\ \A r \in Range(mom_top_pages) \cup Range(yoy_top_pages) :
                  ~Known(r.program_category) =>
                      /\ ("## **" \o r.program_category \o "**") \notin Range(file)
                      /\ \A it \in Range(report) : it.program # r.program_category

\* C1 witness: two programs reported in the order opposite to the one their
\* rows have in the CSV file, and a row with enough sessions of a program that
\* is not in PROGRAM_ORDER
C1_Witness ==
    /\ pc = "done"
    /\ Len(Written("program")) >= 2
    /\ \E i, j \in DOMAIN mom_csv :
          /\ i < j
          /\ Known(mom_csv[i].program_category)
          /\ Known(mom_csv[j].program_category)
          /\ OrderPos(mom_csv[j].program_category) < OrderPos(mom_csv[i].program_category)
          /\ mom_csv[i].Session > MinSessions
          /\ mom_csv[j].Session > MinSessions
    /\ \E r \in Range(mom_top_pages) :
          ~Known(r.program_category) /\ r.Session > MinSessions

\* C5: no row with Session_mom <= 20 gets a bullet, a program or a channel
\* whose rows all have Session_mom <= 20 gets no header, and a row that only the
\* year-over-year table has is never reported
C5_LowTraffic ==
    pc = "done" =>
        /\ \A it \in Range(report) :
              it.kind = "bullet" => it.row.Session_mom > MinSessions
        /\ \A r \in Range(summary_data) :
              r.Session_mom <= MinSessions => ~Reported(r)
        /\ \A it \in Range(report) :
              it.kind = "program" =>
                  \E r \in Range(summary_data) :
                      /\ r.program_category = it.program
                      /\ r.Session_mom > MinSessions
        /\ \A it \in Range(report) :
              it.kind = "channel" =>
                  \E r \in Range(summary_data) :
                      /\ r.program_category = it.program
                      /\ r.default_channel = it.channel
                      /\ r.Session_mom > MinSessions
        /\ \A y \in Range(yoy_top_pages) :
              (\A m \in Range(mom_top_pages) : JoinKey(m) # JoinKey(y)) =>
                  \A it \in Range(report) :
                      it.kind = "bullet" => JoinKey(it.row) # JoinKey(y)

\* C5 witness: a report with a bullet, made from a summary with a row of
\* exactly 20 sessions in a reported program and a row that only the
\* year-over-year table has
C5_Witness ==
    /\ pc = "done"
    /\ \E r \in Range(summary_data) :
          /\ r.Session_mom = MinSessions
          /\ \E it \in Range(report) :
                it.kind = "bullet" /\ it.program = r.program_category
    /\ \E y \in Range(yoy_top_pages) :
          /\ Known(y.program_category)
          /\ \A m \in Range(mom_top_pages) : JoinKey(m) # JoinKey(y)

\* |x| * 2^k cut down to a whole number (below 2^31)
Truncated(x, k) ==
    LET s == -(x.exp + k)
    IN  IF IsZero(x) \/ s > 52 THEN 0
        ELSE IF s >= 27 THEN x.hi \div 2^(s - 27)
        ELSE x.hi * 2^(27 - s) + x.lo \div 2^s

\* x is a float64 as the model writes one
IsFloat64(x) ==
    /\ x.neg \in BOOLEAN
    /\ \/ x.hi = 0 /\ x.lo = 0 /\ x.exp = 0
       \/ x.hi >= 2^25 /\ x.hi < 2^26 /\ x.lo >= 0 /\ x.lo < 2^27

\* pct is the percent change the report is to show for a difference and the
\* conversions of the period before: with previous conversions, a float64
\* with the sign of difference / previous and within 2^-16 of
\* difference / previous * 100; without, exactly 100.0 or 0.0
IsPercentChange(pct, diff, prev) ==
    /\ IsFloat64(pct)
    /\ prev # 0 /\ diff = 0 => IsZero(pct)
    /\ prev # 0 /\ diff # 0 => pct.neg = ((diff < 0) # (prev < 0))
    /\ prev # 0 =>
          LET exact == (100 * Abs(diff) * 2^16) \div Abs(prev)
          IN  Abs(Truncated(pct, 16) - exact) <= 1
    /\ prev = 0 /\ diff > 0 =>
          ~pct.neg /\ pct.hi = 100 * 2^19 /\ pct.lo = 0 /\ pct.exp = -46
    /\ prev = 0 /\ diff <= 0 => IsZero(pct) /\ ~pct.neg

\* C6: for every reported row and both comparisons the previous-period
\* conversions are Conversions_mom minus the comparison's difference, and the
\* percent change is difference / previous * 100, or, the previous being 0,
\* 100 for a positive difference and 0 otherwise
C6_PercentChange ==
    pc = "done" =>
        \A it \in Range(report) :
            it.kind = "bullet" =>
                /\ it.prev_conv_mom
                      = it.row.Conversions_mom - it.row.conversions_mom_difference
                /\ it.prev_conv_yoy
                      = it.row.Conversions_mom - it.row.conversions_yoy_difference
                /\ IsPercentChange(it.conv_pct_change_mom,
                                   it.row.conversions_mom_difference,
                                   it.prev_conv_mom)
                /\ IsPercentChange(it.conv_pct_change_yoy,
                                   it.row.conversions_yoy_difference,
                                   it.prev_conv_yoy)

\* C6 witness: a report with a row whose previous conversions are 0 and whose
\* difference is positive, one whose previous conversions are 0 and whose
\* difference is not, one whose previous conversions and difference are
\* not 0, and one whose difference / previous * 100 lies halfway between two
\* whole numbers
C6_Witness ==
    /\ pc = "done"
    /\ \E it \in Range(report) :
          it.kind = "bullet" /\ it.prev_conv_mom = 0 /\ it.conv_mom_diff > 0
    /\ \E it \in Range(report) :
          it.kind = "bullet" /\ it.prev_conv_mom = 0 /\ it.conv_mom_diff <= 0
    /\ \E it \in Range(report) :
          it.kind = "bullet" /\ it.prev_conv_yoy # 0 /\ it.conv_yoy_diff # 0
    /\ \E it \in Range(report) :
          /\ it.kind = "bullet"
          /\ it.prev_conv_mom # 0
          /\ (200 * it.conv_mom_diff) % it.prev_conv_mom = 0
          /\ (100 * it.conv_mom_diff) % it.prev_conv_mom # 0

\* C7: a second run on the same CSV files leaves the output file exactly as
\* the first run left it: the file is written over, not added to
C7_Idempotent ==
    (pc = "done" /\ runs >= 2) => file = previous_output

\* C7 witness: a second run has ended and the report is not empty
C7_Witness ==
    /\ pc = "done"
    /\ runs >= 2
    /\ Len(Written("bullet")) >= 1
    /\ file # << >>

Surviving(r) == Known(r.program_category) /\ r.Session_mom > MinSessions

\* the place of the header that the item at place i of the report is under
HeaderOf(i) ==
    CHOOSE h \in 1..i :
        /\ report[h].kind = "channel"
        /\ \A k \in (h + 1)..i : report[k].kind # "channel"

\* C10: in a program section every channel with a surviving row has one
\* header, the channels are in alphabetical order, and under a channel's
\* header are all and only the surviving rows of the program and channel, once
\* each, in non-increasing order of Session_mom
C10_ChannelSections ==
    pc = "done" =>
        /\ \A r \in Range(summary_data) :
              Surviving(r) =>
                  /\ Cardinality({ i \in DOMAIN report :
                        /\ report[i].kind = "channel"
                        /\ report[i].program = r.program_category
                        /\ report[i].channel = r.default_channel }) = 1
                  /\ Cardinality({ i \in DOMAIN report :
                        IsBulletOf(report[i], r) }) = 1
        /\ \A i, j \in DOMAIN report :
              ( /\ i < j
                /\ report[i].kind = "channel"
                /\ report[j].kind = "channel"
                /\ report[i].program = report[j].program )
              => StrLess(report[i].channel, report[j].channel)
        /\ \A i \in DOMAIN report :
              report[i].kind = "bullet" =>
                  /\ \E r \in Range(summary_data) :
                        /\ Surviving(r)
                        /\ IsBulletOf(report[i], r)
                        /\ report[i].program = r.program_category
                        /\ report[i].channel = r.default_channel
                        /\ report[i].page = r.Landing_page
                  /\ \E h \in 1..i : report[h].kind = "channel"
                  /\ report[HeaderOf(i)].program = report[i].program
                  /\ report[HeaderOf(i)].channel = report[i].channel
        /\ \A i \in DOMAIN report :
              ( /\ i + 1 \in DOMAIN report
                /\ report[i].kind = "bullet"
                /\ report[i + 1].kind = "bullet" )
              => report[i].sessions_mom >= report[i + 1].sessions_mom

\* C10 witness: a program section with two channels, one of them with two
\* rows of different Session_mom that the CSV file has in increasing order
C10_Witness ==
    /\ pc = "done"
    /\ \E i, j \in DOMAIN report :
          /\ i < j
          /\ report[i].kind = "channel"
          /\ report[j].kind = "channel"
          /\ report[i].program = report[j].program
    /\ \E i \in DOMAIN report :
          /\ i + 1 \in DOMAIN report
          /\ report[i].kind = "bullet"
          /\ report[i + 1].kind = "bullet"
          /\ report[i].sessions_mom > report[i + 1].sessions_mom
          /\ \E a, b \in DOMAIN mom_csv :
                /\ a < b
                /\ mom_csv[a].Landing_page = report[i + 1].page
                /\ mom_csv[b].Landing_page = report[i].page

\* the program of a row as the summary table shows it
ShownProgram(r) ==
    IF Known(r.program_category) THEN r.program_category ELSE NaNCategory

SameKey(s, v) ==
    /\ s.program_category = ShownProgram(v)
    /\ s.default_channel = v.default_channel
    /\ s.Landing_page = v.Landing_page

\* row s of the summary holds row v of the month-over-month table
HoldsMom(s, v) ==
    /\ SameKey(s, v)
    /\ s.Session_mom = v.Session
    /\ s.Conversions_mom = v.Conversions
    /\ s.sessions_mom_difference = v.sessions_mom_difference
    /\ s.conversions_mom_difference = v.conversions_mom_difference
    /\ s.conversion_rate_mom_percent_difference
          = v.conversion_rate_mom_percent_difference

\* row s of the summary holds row v of the year-over-year table
HoldsYoy(s, v) ==
    /\ SameKey(s, v)
    /\ s.Session_yoy = v.Session
    /\ s.Conversions_yoy = v.Conversions
    /\ s.sessions_yoy_difference = v.sessions_yoy_difference
    /\ s.conversions_yoy_difference = v.conversions_yoy_difference
    /\ s.conversion_rate_yoy_percent_difference
          = v.conversion_rate_yoy_percent_difference

\* how many rows of table t have the join key of row v
Partners(t, v) == CountRows(t, LAMBDA r : JoinKey(r) = JoinKey(v))

Summarized == pc \in { "report", "done" }

\* every row of the summary comes from a row of one of the two tables
NoRowInvented ==
    \A s \in Range(summary_data) :
        \/ \E v \in Range(mom_top_pages) : HoldsMom(s, v)
        \/ \E v \in Range(yoy_top_pages) : HoldsYoy(s, v)

\* C3 as stated: every row of either ranked table is in the summary exactly
\* once, alone or merged with its partner, also when a key occurs more than
\* once in a table
C3_ExactlyOnce ==
    Summarized =>
        /\ NoRowInvented
        /\ \A v \in Range(mom_top_pages) :
              CountRows(summary_data, LAMBDA s : HoldsMom(s, v))
                  = CountRows(mom_top_pages, LAMBDA r : r = v)
        /\ \A v \in Range(yoy_top_pages) :
              CountRows(summary_data, LAMBDA s : HoldsYoy(s, v))
                  = CountRows(yoy_top_pages, LAMBDA r : r = v)

\* C3 amended: every row of either ranked table is in the summary, once when
\* the other table has at most one row with its key, and otherwise once for
\* each row of the other table with its key, merged with that row; the summary
\* has no other rows
C3_JoinTotal ==
    Summarized =>
        /\ NoRowInvented
        /\ \A v \in Range(mom_top_pages) :
              CountRows(summary_data, LAMBDA s : HoldsMom(s, v))
                  = CountRows(mom_top_pages, LAMBDA r : r = v)
                        * Max(1, Partners(yoy_top_pages, v))
        /\ \A v \in Range(yoy_top_pages) :
              CountRows(summary_data, LAMBDA s : HoldsYoy(s, v))
                  = CountRows(yoy_top_pages, LAMBDA r : r = v)
                        * Max(1, Partners(mom_top_pages, v))

\* C3 witness: a key that the month-over-month table has twice and the
\* year-over-year table once, and a row with no partner
C3_Witness ==
    /\ Summarized
    /\ \E v \in Range(yoy_top_pages) : Partners(mom_top_pages, v) = 2
    /\ \E v \in Range(mom_top_pages) : Partners(yoy_top_pages, v) = 0

\* the ten numeric columns of the summary
DesignatedFields ==
    { "Session_mom", "Session_yoy",
      "sessions_mom_difference", "sessions_yoy_difference",
      "Conversions_mom", "Conversions_yoy",
      "conversions_mom_difference", "conversions_yoy_difference",
      "conversion_rate_mom_percent_difference",
      "conversion_rate_yoy_percent_difference" }

MomFields ==
    { "Session_mom", "sessions_mom_difference", "Conversions_mom",
      "conversions_mom_difference", "conversion_rate_mom_percent_difference" }

\* C4: every row of the summary has all ten numeric columns, none of them
\* missing, and a column the join left missing is 0
C4_NoMissing ==
    Summarized =>
        \A s \in Range(summary_data) :
            /\ DesignatedFields \subseteq DOMAIN s
            /\ \A f \in DesignatedFields : s[f] # NaN
            /\ (\A v \in Range(mom_top_pages) : ~SameKey(s, v)) =>
                  \A f \in MomFields : s[f] = 0
            /\ (\A v \in Range(yoy_top_pages) : ~SameKey(s, v)) =>
                  \A f \in DesignatedFields \ MomFields : s[f] = 0

\* C4 witness: a summary with a row that only the month-over-month table has
\* and a row that only the year-over-year table has
C4_Witness ==
    /\ Summarized
    /\ \E s \in Range(summary_data) :
          /\ \E v \in Range(mom_top_pages) : SameKey(s, v)
          /\ \A v \in Range(yoy_top_pages) : ~SameKey(s, v)
    /\ \E s \in Range(summary_data) :
          /\ \E v \in Range(yoy_top_pages) : SameKey(s, v)
          /\ \A v \in Range(mom_top_pages) : ~SameKey(s, v)

\* the place of a row's program in PROGRAM_ORDER, after all of them for a
\* program that is not in it
SortPos(s) ==
    IF Known(s.program_category) THEN OrderPos(s.program_category)
    ELSE Len(PROGRAM_ORDER) + 1

\* the summary is in the order of PROGRAM_ORDER and, within a program, of the
\* channel names
SummarySorted ==
    \A i, j \in DOMAIN summary_data :
        i < j =>
            /\ SortPos(summary_data[i]) <= SortPos(summary_data[j])
            /\ SortPos(summary_data[i]) = SortPos(summary_data[j]) =>
                  ~StrLess(summary_data[j].default_channel,
                           summary_data[i].default_channel)

\* C9 as stated: the summary is sorted by the program's place in
\* PROGRAM_ORDER, then by channel name, and has no row of a program that is
\* not in PROGRAM_ORDER
C9_SortedAndDropped ==
    Summarized =>
        /\ SummarySorted
        /\ \A s \in Range(summary_data) : Known(s.program_category)

\* C9 amended: the summary is sorted by the program's place in PROGRAM_ORDER,
\* then by channel name; the rows of a program that is not in PROGRAM_ORDER
\* stay in the table, after all the others, their program_category missing
C9_SortedAndKept ==
    Summarized =>
        /\ SummarySorted
        /\ \A s \in Range(summary_data) :
              Known(s.program_category) \/ s.program_category = NaNCategory
        /\ \A v \in Range(mom_top_pages) :
              ~Known(v.program_category) =>
                  \E s \in Range(summary_data) :
                      s.program_category = NaNCategory /\ HoldsMom(s, v)
        /\ \A v \in Range(yoy_top_pages) :
              ~Known(v.program_category) =>
                  \E s \in Range(summary_data) :
                      s.program_category = NaNCategory /\ HoldsYoy(s, v)

\* C9 witness: a summary with the rows of two programs that the merge had in
\* the other order, and a row of a program that is not in PROGRAM_ORDER
C9_Witness ==
    /\ Summarized
    /\ \E i, j \in DOMAIN summary_data :
          /\ i < j
          /\ Known(summary_data[i].program_category)
          /\ Known(summary_data[j].program_category)
          /\ summary_data[i].index > summary_data[j].index
    /\ \E s \in Range(summary_data) : s.program_category = NaNCategory

====
